---- MODULE Spec2Model ----
(***************************************************************************)
(* Model of packages/qwik/src/core/use/use-watch.ts: the watch descriptor, *)
(* the registrars (useWatchQrl, useClientEffectQrl, use*MountQrl), the     *)
(* runner (runWatch, cleanupWatch, destroyWatch) and the tracker.          *)
(*                                                                         *)
(* One component element is modelled.  Its call sites are numbered, site i *)
(* being the i-th useSequentialScope() slot of the component, and a        *)
(* descriptor is named by the slot index it was created with (its `i`).    *)
(***************************************************************************)
EXTENDS Integers, Sequences, FiniteSets, TLC

----------------------------------------------------------------------------
(* Bounds of the model *)

\* promises created by runWatch, over all descriptors
MaxRuns == 3
\* evaluations of the component function
MaxRenders == 2

----------------------------------------------------------------------------
(* Flags, use-watch.ts:19-22 *)

WatchFlagsIsEffect == 1
WatchFlagsIsWatch == 2
WatchFlagsIsDirty == 4
WatchFlagsIsCleanup == 8

\* f & m
HasFlag(f, m) == (f \div m) % 2 = 1
\* f |= m
SetFlag(f, m) == IF HasFlag(f, m) THEN f ELSE f + m
\* f &= ~m
ClearFlag(f, m) == IF HasFlag(f, m) THEN f - m ELSE f

----------------------------------------------------------------------------
(* The component: which registrar each call site holds *)

SiteWatch == 1
SiteEffect == 2
SiteServerMount == 3
SiteClientMount == 4
SiteMount == 5
SiteCleanup == 6
NSites == SiteCleanup

Sites == 1..NSites
\* sites whose registrar creates a descriptor the runner runs
WatchSites == {SiteWatch, SiteEffect}
\* sites whose registrar creates a descriptor
DescSites == WatchSites \cup {SiteCleanup}
MountSites == {SiteServerMount, SiteClientMount, SiteMount}

\* JavaScript's undefined (an absent `prop`, an absent `opts.run`)
Undefined == "undefined"
\* the properties of the one tracked store object: one has an ordinary name,
\* the other the empty string for its name
Props == {"a", ""}
\* the second argument of track()
TrackArgs == Props \cup {Undefined}
\* the values a property holds
Vals == {0, 1}
\* opts.run, UseEffectRunOptions | undefined
RunOpts == {"load", "visible", Undefined}

VARIABLES
  isServer,   \* platform.isServer
  seq,        \* useSequentialScope storage: seq[i] is what slot i holds
  cursor,     \* 0: no render in progress; i: the next call site to evaluate
  renders,    \* evaluations of the component function started so far
  watches,    \* getContext(el).$watches$, the slot indices of the descriptors
  f,          \* watch.f
  destroy,    \* watch.destroy: 0, or the run whose body returned the attached function
  running,    \* watch.running: 0, or the run whose promise it is
  runs,       \* the promises runWatch created, per descriptor, in call order
  subs,       \* the subscription manager: pairs <<descriptor, prop or Undefined>>
  store,      \* the tracked store object
  tracked,    \* per descriptor, the second arguments its latest body passed to track()
  ret,        \* what the call made in the last step returned
  log,        \* per descriptor, the cleanup and body invocations in order
  sets,       \* per descriptor, how often IS_DIRTY went from unset to set
  destroyed,  \* per descriptor, whether destroyWatch was called on it
  err,        \* what became of an exception in the last call of the runner
  regs,       \* per descriptor, the triggers registered with useResumeQrl/useVisibleQrl
  waitOn,     \* ctx.$waitOn$ of the render in progress
  initTask,   \* the microtask useWatchQrl schedules, and the promise it returned
  mounts,     \* per mount site, the promise of mountQrl.invoke(): "none", "pending", ...
  mountCalls, \* per mount site, how often mountQrl.invoke() was called
  setup       \* "idle", "rendering", "waiting", "done", "failed"

vars == <<isServer, seq, cursor, renders, watches, f, destroy, running, runs,
          subs, store, tracked, ret, log, sets, destroyed, err, regs, waitOn,
          initTask, mounts, mountCalls, setup>>

\* what the runner reads and writes, as one record; a call starts with no
\* exception raised
Heap == [f |-> f, destroy |-> destroy, running |-> running, runs |-> runs,
         subs |-> subs, store |-> store, tracked |-> tracked, log |-> log,
         sets |-> sets, destroyed |-> destroyed, err |-> "none"]

SetHeap(h) ==
  /\ f' = h.f
  /\ destroy' = h.destroy
  /\ running' = h.running
  /\ runs' = h.runs
  /\ subs' = h.subs
  /\ store' = h.store
  /\ tracked' = h.tracked
  /\ log' = h.log
  /\ sets' = h.sets
  /\ destroyed' = h.destroyed
  /\ err' = h.err

heapVars == <<f, destroy, running, runs, subs, store, tracked, log, sets,
              destroyed, err>>

registrarVars == <<isServer, seq, cursor, renders, watches, regs, waitOn,
                   initTask, mounts, mountCalls, setup>>

----------------------------------------------------------------------------
(* Promises, returned values and log entries *)

\* a promise runWatch created: `prev` is the promise it waits on (0: none),
\* `phase` where its callback stands, `promise` the state of the promise,
\* `cleanup` whether its body returned a function, `throws` whether that
\* function throws when it is invoked
NewRun(prev) ==
  [phase |-> "waiting", promise |-> "pending", prev |-> prev, cleanup |-> FALSE,
   throws |-> FALSE]

Ev(e, n) == [e |-> e, n |-> n]

\* the last step made no call that returns
NoRet == [op |-> "none", i |-> 0, arg |-> Undefined, p |-> 0, v |-> 0]
\* runWatch(watch i) returned promise p: 0 is Promise.resolve(watch), n the promise of run n
RetPromise(i, p) == [op |-> "runWatch", i |-> i, arg |-> Undefined, p |-> p, v |-> 0]
\* track(obj, prop) returned obj[prop] = v
RetValue(i, prop, v) == [op |-> "track", i |-> i, arg |-> prop, p |-> 0, v |-> v]
\* track(obj) returned obj
RetObject(i, prop) == [op |-> "trackObj", i |-> i, arg |-> prop, p |-> 0, v |-> 0]

\* `if (prop)`: undefined and the empty string are falsy
Truthy(prop) == prop # Undefined /\ prop # ""

\* the bodies a run can meet: a body that runs to its end at once (it
\* returns nothing or a function, or throws), or one that returns a promise;
\* `track` is the track() call it makes before returning
NoTrack == "none"
SyncBodies ==
  [mode : {"sync"}, track : TrackArgs \cup {NoTrack}, out : {"none", "cleanup", "throw"}]
AsyncBodies ==
  [mode : {"async"}, track : TrackArgs \cup {NoTrack}, out : {"pending"}]
Bodies == SyncBodies \cup AsyncBodies
\* the bodies that end well, the function they return being one that throws
\* or one that does not, and that track the whole object or nothing
GoodBodies ==
  [mode : {"sync"}, track : {Undefined, NoTrack}, out : {"none", "cleanup", "badcleanup"}]
    \cup [mode : {"async"}, track : {Undefined, NoTrack}, out : {"pending"}]
\* isFunction(returnValue)
IsFunction(out) == out \in {"cleanup", "badcleanup"}
\* the body of a call that does not reach its body
NoBody == [mode |-> "sync", track |-> NoTrack, out |-> "none"]

----------------------------------------------------------------------------
(* The subscription manager (notify-render.ts, outside this file) *)

\* manager.$addSub$(watch, prop)
addSub(h, i, prop) == [h EXCEPT !.subs = @ \cup {<<i, prop>>}]

\* subsManager.$clearSub$(watch)
clearSub(h, i) == [h EXCEPT !.subs = {s \in @ : s[1] # i}]

\* the descriptors a write to `prop` notifies
Subscribers(h, prop) ==
  {i \in WatchSites : <<i, prop>> \in h.subs \/ <<i, Undefined>> \in h.subs}

\* a write to obj[prop]: the value changes and every subscriber is marked dirty
notifyWrite(h, prop, v) ==
  [h EXCEPT !.store[prop] = v,
            !.f = [i \in DescSites |->
                     IF i \in Subscribers(h, prop)
                       THEN SetFlag(h.f[i], WatchFlagsIsDirty) ELSE h.f[i]],
            !.sets = [i \in DescSites |->
                        IF i \in Subscribers(h, prop) /\ ~HasFlag(h.f[i], WatchFlagsIsDirty)
                          THEN h.sets[i] + 1 ELSE h.sets[i]]]

----------------------------------------------------------------------------
(* The runner, use-watch.ts:537-600 *)

\* cleanupWatch that invokes the attached function and leaves it attached
cleanupWatchKeepsIt(h, i) ==
  IF h.destroy[i] # 0
    THEN [h EXCEPT !.log[i] = Append(@, [e |-> "cleanup", n |-> h.destroy[i]]),
                   !.err = IF h.runs[i][h.destroy[i]].throws THEN "logged" ELSE @]
    ELSE h

\* cleanupWatch without the try/catch: what the function throws reaches the caller
cleanupWatchRethrows(h, i) ==
  IF h.destroy[i] # 0
    THEN [h EXCEPT !.destroy[i] = 0,
                   !.log[i] = Append(@, Ev("cleanup", h.destroy[i])),
                   !.err = IF h.runs[i][h.destroy[i]].throws THEN "thrown" ELSE @]
    ELSE h

\* cleanupWatch(watch): what the function throws is caught and logged
cleanupWatch(h, i) ==
  IF h.destroy[i] # 0
    THEN [h EXCEPT !.destroy[i] = 0,
                   !.log[i] = Append(@, Ev("cleanup", h.destroy[i])),
                   !.err = IF h.runs[i][h.destroy[i]].throws THEN "logged" ELSE @]
    ELSE h

\* the tracker: track(obj, prop); .h is the state it leaves, .v what it returns
track(h, i, prop) ==
  LET h1 == addSub(h, i, prop)
  IN [h |-> [h1 EXCEPT !.tracked[i] = @ \cup {prop}],
      v |-> IF Truthy(prop) THEN RetValue(i, prop, h.store[prop])
                            ELSE RetObject(i, prop)]

\* a callback that attaches the function and does not call resolve(watch)
bodyReturnedNoResolve(h, i, n, out) ==
  LET h1 == IF IsFunction(out)
              THEN [h EXCEPT !.destroy[i] = n, !.runs[i][n].cleanup = TRUE,
                             !.runs[i][n].throws = (out = "badcleanup")]
              ELSE h
  IN [h1 EXCEPT !.runs[i][n].phase = "ended"]

\* the callback given to then(watchFn(track), ...): the body's result arrived
bodyReturned(h, i, n, out) ==
  LET h1 == IF IsFunction(out)
              THEN [h EXCEPT !.destroy[i] = n, !.runs[i][n].cleanup = TRUE,
                             !.runs[i][n].throws = (out = "badcleanup")]
              ELSE h
  IN [h1 EXCEPT !.runs[i][n].phase = "ended",
                !.runs[i][n].promise = "resolved"]

\* the body threw, or the promise it returned rejected: the callback above
\* does not run; the promise of run n rejects only if the throw crosses the
\* executor of `new Promise`
bodyFailed(h, i, n, inExecutor) ==
  [h EXCEPT !.runs[i][n].phase = "ended",
            !.runs[i][n].promise = IF inExecutor THEN "rejected" ELSE "pending"]

\* a callback that invokes the body first and the previous cleanup after it
thenFnBodyFirst(h, i, n, b, inExecutor) ==
  LET h1 == clearSub(h, i)
      h2 == [h1 EXCEPT !.log[i] = Append(@, Ev("body", n)),
                       !.runs[i][n].phase = "body",
                       !.tracked[i] = {}]
      h3 == cleanupWatch(h2, i)
      h4 == IF b.track # NoTrack THEN track(h3, i, b.track).h ELSE h3
  IN CASE b.mode = "async" -> h4
       [] b.mode = "sync" /\ b.out = "throw" -> bodyFailed(h4, i, n, inExecutor)
       [] OTHER -> bodyReturned(h4, i, n, b.out)

\* a callback that leaves the subscriptions of the previous run in place
thenFnKeepsSubs(h, i, n, b, inExecutor) ==
  LET h1 == cleanupWatch(h, i)
      h3 == [h1 EXCEPT !.log[i] = Append(@, Ev("body", n)),
                       !.runs[i][n].phase = "body",
                       !.tracked[i] = {}]
      h4 == IF b.track # NoTrack THEN track(h3, i, b.track).h ELSE h3
  IN CASE b.mode = "async" -> h4
       [] b.mode = "sync" /\ b.out = "throw" -> bodyFailed(h4, i, n, inExecutor)
       [] OTHER -> bodyReturned(h4, i, n, b.out)

\* the callback given to then(watch.running, ...): cleanup, clear the
\* subscriptions, invoke the body with the tracker
thenFn(h, i, n, b, inExecutor) ==
  LET h1 == cleanupWatch(h, i)
      h2 == clearSub(h1, i)
      h3 == [h2 EXCEPT !.log[i] = Append(@, Ev("body", n)),
                       !.runs[i][n].phase = "body",
                       !.tracked[i] = {}]
      h4 == IF b.track # NoTrack THEN track(h3, i, b.track).h ELSE h3
  IN CASE b.mode = "async" -> h4
       [] b.mode = "sync" /\ b.out = "throw" -> bodyFailed(h4, i, n, inExecutor)
       [] OTHER -> bodyReturned(h4, i, n, b.out)

\* runWatch that does not wait for watch.running
runWatchNoWait(h, i, b) ==
  IF ~HasFlag(h.f[i], WatchFlagsIsDirty)
    THEN [h |-> h, p |-> 0]
    ELSE LET n == Len(h.runs[i]) + 1
             h1 == [h EXCEPT !.f[i] = ClearFlag(@, WatchFlagsIsDirty),
                             !.runs[i] = Append(@, NewRun(h.running[i]))]
             h2 == thenFn(h1, i, n, b, TRUE)
         IN [h |-> [h2 EXCEPT !.running[i] = n], p |-> n]

\* runWatch without the test of IS_DIRTY
runWatchNoGate(h, i, b) ==
  LET n == Len(h.runs[i]) + 1
      prev == h.running[i]
      h1 == [h EXCEPT !.f[i] = ClearFlag(@, WatchFlagsIsDirty),
                      !.runs[i] = Append(@, NewRun(prev))]
      h2 == IF prev = 0 THEN thenFn(h1, i, n, b, TRUE) ELSE h1
  IN [h |-> [h2 EXCEPT !.running[i] = n], p |-> n]

\* runWatch that stores its promise only when no run is in flight
runWatchKeepsHandle(h, i, b) ==
  IF ~HasFlag(h.f[i], WatchFlagsIsDirty)
    THEN [h |-> h, p |-> 0]
    ELSE LET n == Len(h.runs[i]) + 1
             prev == h.running[i]
             h1 == [h EXCEPT !.f[i] = ClearFlag(@, WatchFlagsIsDirty),
                             !.runs[i] = Append(@, NewRun(prev))]
             h2 == IF prev = 0 THEN thenFn(h1, i, n, b, TRUE) ELSE h1
         IN [h |-> [h2 EXCEPT !.running[i] = IF prev = 0 THEN n ELSE prev], p |-> n]

\* runWatch that leaves IS_DIRTY set
runWatchKeepsDirty(h, i, b) ==
  IF ~HasFlag(h.f[i], WatchFlagsIsDirty)
    THEN [h |-> h, p |-> 0]
    ELSE LET n == Len(h.runs[i]) + 1
             prev == h.running[i]
             h1 == [h EXCEPT !.runs[i] = Append(@, NewRun(prev))]
             h2 == IF prev = 0 THEN thenFn(h1, i, n, b, TRUE) ELSE h1
         IN [h |-> [h2 EXCEPT !.running[i] = n], p |-> n]

\* runWatch(watch, containerState); .h is the state it leaves, .p the
\* promise it returns
runWatch(h, i, b) ==
  IF ~HasFlag(h.f[i], WatchFlagsIsDirty)
    THEN [h |-> h, p |-> 0]
    ELSE LET n == Len(h.runs[i]) + 1
             prev == h.running[i]
             h1 == [h EXCEPT !.f[i] = ClearFlag(@, WatchFlagsIsDirty),
                             !.runs[i] = Append(@, NewRun(prev))]
             h2 == IF prev = 0 THEN thenFn(h1, i, n, b, TRUE) ELSE h1
         IN [h |-> [h2 EXCEPT !.running[i] = n], p |-> n]

\* destroyWatch that leaves the attached function alone
destroyWatchSkipsCleanup(h, i) ==
  IF HasFlag(h.f[i], WatchFlagsIsCleanup)
    THEN [h EXCEPT !.f[i] = ClearFlag(@, WatchFlagsIsCleanup),
                   !.log[i] = Append(@, Ev("qrl", 0))]
    ELSE h

\* destroyWatch that leaves IS_CLEANUP set
destroyWatchKeepsFlag(h, i) ==
  IF HasFlag(h.f[i], WatchFlagsIsCleanup)
    THEN [h EXCEPT !.log[i] = Append(@, Ev("qrl", 0))]
    ELSE cleanupWatch(h, i)

\* destroyWatch(watch)
destroyWatch(h, i) ==
  IF HasFlag(h.f[i], WatchFlagsIsCleanup)
    THEN [h EXCEPT !.f[i] = ClearFlag(@, WatchFlagsIsCleanup),
                   !.log[i] = Append(@, Ev("qrl", 0))]
    ELSE cleanupWatch(h, i)

----------------------------------------------------------------------------
(* Registration, use-watch.ts:128-147, 240-258, 329-338, 414-423, 493-499, 645-651 *)

\* useRunWatch that takes an absent run option for 'visible'
useRunWatchDefaultsVisible(r, i, run) ==
  IF run = "load" THEN [r EXCEPT ![i] = Append(@, "load")]
  ELSE [r EXCEPT ![i] = Append(@, "visible")]

\* useRunWatch(watch, run): useResumeQrl / useVisibleQrl with the handler of the watch
useRunWatch(r, i, run) ==
  IF run = "load" THEN [r EXCEPT ![i] = Append(@, "load")]
  ELSE IF run = "visible" THEN [r EXCEPT ![i] = Append(@, "visible")]
  ELSE r

\* the next call site of the component function is evaluated
Evaluating(i) == setup = "rendering" /\ cursor = i

\* useWaitOn(promise): the promise joins ctx.$waitOn$, named by its call site
useWaitOn(w, i) == w \cup {i}

\* useWatchQrl that does not hand its initial run to useWaitOn
UseWatchQrlNotAwaited(run) ==
  /\ Evaluating(SiteWatch)
  /\ cursor' = cursor + 1
  /\ IF ~seq[SiteWatch]
       THEN /\ seq' = [seq EXCEPT ![SiteWatch] = TRUE]
            /\ f' = [f EXCEPT ![SiteWatch] = WatchFlagsIsDirty + WatchFlagsIsWatch]
            /\ sets' = [sets EXCEPT ![SiteWatch] = 1]
            /\ watches' = Append(watches, SiteWatch)
            /\ waitOn' = waitOn
            /\ initTask' = [st |-> "scheduled", p |-> 0]
            /\ regs' = IF isServer THEN useRunWatch(regs, SiteWatch, run) ELSE regs
       ELSE UNCHANGED <<seq, f, sets, watches, waitOn, initTask, regs>>
  /\ ret' = NoRet
  /\ UNCHANGED <<isServer, renders, destroy, running, runs, subs, store, tracked,
                 log, destroyed, err, mounts, mountCalls, setup>>

\* useWatchQrl(qrl, opts) with opts.run = run
UseWatchQrl(run) ==
  /\ Evaluating(SiteWatch)
  /\ cursor' = cursor + 1
  /\ IF ~seq[SiteWatch]
       THEN /\ seq' = [seq EXCEPT ![SiteWatch] = TRUE]
            /\ f' = [f EXCEPT ![SiteWatch] = WatchFlagsIsDirty + WatchFlagsIsWatch]
            /\ sets' = [sets EXCEPT ![SiteWatch] = 1]
            /\ watches' = Append(watches, SiteWatch)
            /\ waitOn' = useWaitOn(waitOn, SiteWatch)
            /\ initTask' = [st |-> "scheduled", p |-> 0]
            /\ regs' = IF isServer THEN useRunWatch(regs, SiteWatch, run) ELSE regs
       ELSE UNCHANGED <<seq, f, sets, watches, waitOn, initTask, regs>>
  /\ ret' = NoRet
  /\ UNCHANGED <<isServer, renders, destroy, running, runs, subs, store, tracked,
                 log, destroyed, err, mounts, mountCalls, setup>>

\* useClientEffectQrl that registers on every evaluation
UseClientEffectQrlEveryTime(run) ==
  /\ Evaluating(SiteEffect)
  /\ cursor' = cursor + 1
  /\ seq' = [seq EXCEPT ![SiteEffect] = TRUE]
  /\ f' = [f EXCEPT ![SiteEffect] = WatchFlagsIsEffect]
  /\ watches' = Append(watches, SiteEffect)
  /\ regs' = useRunWatch(regs, SiteEffect, IF run = Undefined THEN "visible" ELSE run)
  /\ ret' = NoRet
  /\ UNCHANGED <<isServer, renders, destroy, running, runs, subs, store, tracked,
                 log, sets, destroyed, err, waitOn, initTask, mounts, mountCalls,
                 setup>>

\* useClientEffectQrl(qrl, opts) with opts.run = run; doc.qO.observe(el)
\* touches the document's observer only, which is not part of the state
UseClientEffectQrl(run) ==
  /\ Evaluating(SiteEffect)
  /\ cursor' = cursor + 1
  /\ IF ~seq[SiteEffect]
       THEN /\ seq' = [seq EXCEPT ![SiteEffect] = TRUE]
            /\ f' = [f EXCEPT ![SiteEffect] = WatchFlagsIsEffect]
            /\ watches' = Append(watches, SiteEffect)
            /\ regs' = useRunWatch(regs, SiteEffect, IF run = Undefined THEN "visible" ELSE run)
       ELSE UNCHANGED <<seq, f, watches, regs>>
  /\ ret' = NoRet
  /\ UNCHANGED <<isServer, renders, destroy, running, runs, subs, store, tracked,
                 log, sets, destroyed, err, waitOn, initTask, mounts, mountCalls,
                 setup>>

\* the body shared by the mount registrars: `gate` is the environment test
mountQrl(i, gate) ==
  /\ Evaluating(i)
  /\ cursor' = cursor + 1
  /\ IF ~seq[i]
       THEN /\ seq' = [seq EXCEPT ![i] = TRUE]
            /\ IF gate
                 THEN /\ mountCalls' = [mountCalls EXCEPT ![i] = @ + 1]
                      /\ mounts' = [mounts EXCEPT ![i] = "pending"]
                      /\ waitOn' = useWaitOn(waitOn, i)
                 ELSE UNCHANGED <<mountCalls, mounts, waitOn>>
       ELSE UNCHANGED <<seq, mountCalls, mounts, waitOn>>
  /\ ret' = NoRet
  /\ UNCHANGED <<isServer, renders, watches, regs, initTask, setup>>
  /\ UNCHANGED heapVars

\* useServerMountQrl without the test of isServer
UseServerMountQrlUngated == mountQrl(SiteServerMount, TRUE)

\* useServerMountQrl(mountQrl)
UseServerMountQrl == mountQrl(SiteServerMount, isServer)

\* useClientMountQrl(mountQrl)
UseClientMountQrl == mountQrl(SiteClientMount, ~isServer)

\* useMountQrl(mountQrl)
UseMountQrl == mountQrl(SiteMount, TRUE)

\* useCleanupQrl(unmountFn), outside this file: on its first evaluation it
\* creates a descriptor whose registered function is a bare teardown callback
UseCleanupQrl ==
  /\ Evaluating(SiteCleanup)
  /\ cursor' = cursor + 1
  /\ IF ~seq[SiteCleanup]
       THEN /\ seq' = [seq EXCEPT ![SiteCleanup] = TRUE]
            /\ f' = [f EXCEPT ![SiteCleanup] = WatchFlagsIsCleanup]
            /\ watches' = Append(watches, SiteCleanup)
       ELSE UNCHANGED <<seq, f, watches>>
  /\ ret' = NoRet
  /\ UNCHANGED <<isServer, renders, destroy, running, runs, subs, store, tracked,
                 log, sets, destroyed, err, regs, waitOn, initTask, mounts,
                 mountCalls, setup>>

----------------------------------------------------------------------------
(* The component's renders and what awaits them (use-core.ts, outside this file) *)

\* the component function is called: the cursor of useSequentialScope restarts
RenderStart ==
  /\ setup \in {"idle", "done"}
  /\ renders < MaxRenders
  /\ setup' = "rendering"
  /\ cursor' = 1
  /\ renders' = renders + 1
  /\ waitOn' = {}
  /\ ret' = NoRet
  /\ UNCHANGED <<isServer, seq, watches, regs, initTask, mounts, mountCalls>>
  /\ UNCHANGED heapVars

\* the component function returned: its caller awaits ctx.$waitOn$
RenderEnd ==
  /\ setup = "rendering"
  /\ cursor = NSites + 1
  /\ setup' = "waiting"
  /\ cursor' = 0
  /\ ret' = NoRet
  /\ UNCHANGED <<isServer, seq, renders, watches, regs, waitOn, initTask, mounts, mountCalls>>
  /\ UNCHANGED heapVars

\* the state of the promise an entry of ctx.$waitOn$ stands for
WaitState(e) ==
  IF e \in MountSites THEN mounts[e]
  ELSE IF initTask.st # "done" THEN "pending"
  ELSE IF initTask.p = 0 THEN "resolved"
  ELSE runs[e][initTask.p].promise

\* every awaited promise resolved: setup completes
SetupDone ==
  /\ setup = "waiting"
  /\ \A e \in waitOn : WaitState(e) = "resolved"
  /\ setup' = "done"
  /\ ret' = NoRet
  /\ UNCHANGED <<isServer, seq, cursor, renders, watches, regs, waitOn, initTask,
                 mounts, mountCalls>>
  /\ UNCHANGED heapVars

\* an awaited promise rejected: the rejection reaches the caller of setup
SetupFail ==
  /\ setup = "waiting"
  /\ \E e \in waitOn : WaitState(e) = "rejected"
  /\ setup' = "failed"
  /\ ret' = NoRet
  /\ UNCHANGED <<isServer, seq, cursor, renders, watches, regs, waitOn, initTask,
                 mounts, mountCalls>>
  /\ UNCHANGED heapVars

\* the promise of mountQrl.invoke() settles
MountSettle(i, ok) ==
  /\ setup # "rendering"
  /\ mounts[i] = "pending"
  /\ mounts' = [mounts EXCEPT ![i] = IF ok THEN "resolved" ELSE "rejected"]
  /\ ret' = NoRet
  /\ UNCHANGED <<isServer, seq, cursor, renders, watches, regs, waitOn, initTask,
                 mountCalls, setup>>
  /\ UNCHANGED heapVars

----------------------------------------------------------------------------
(* The steps of the runner *)

\* a task can run: no call site is being evaluated (the component function
\* runs to its end without yielding) and no microtask is due before it
Idle == setup # "rendering" /\ initTask.st # "scheduled"

Exists(i) == \E k \in 1..Len(watches) : watches[k] = i

TotalRuns == Len(runs[SiteWatch]) + Len(runs[SiteEffect])

\* a call of runWatch now would invoke the body before it returns
ReachesBody(i) == HasFlag(f[i], WatchFlagsIsDirty) /\ running[i] = 0

\* the microtask of useWatchQrl: Promise.resolve().then(() => runWatch(watch, containerState))
InitialRun(b) ==
  /\ setup # "rendering"
  /\ initTask.st = "scheduled"
  /\ ReachesBody(SiteWatch) \/ b = NoBody
  /\ LET r == runWatch(Heap, SiteWatch, b)
     IN /\ SetHeap(r.h)
        /\ ret' = RetPromise(SiteWatch, r.p)
        /\ initTask' = [st |-> "done", p |-> r.p]
  /\ UNCHANGED <<isServer, seq, cursor, renders, watches, regs, waitOn, mounts,
                 mountCalls, setup>>

\* the scheduler calls runWatch(watch, containerState)
RunWatch(i, b) ==
  /\ Idle
  /\ Exists(i)
  /\ HasFlag(f[i], WatchFlagsIsDirty) => TotalRuns < MaxRuns
  /\ ReachesBody(i) \/ b = NoBody
  /\ LET r == runWatch(Heap, i, b)
     IN /\ SetHeap(r.h)
        /\ ret' = RetPromise(i, r.p)
  /\ UNCHANGED registrarVars

\* the promise run n waits on resolved: its callback runs
RunContinue(i, n, b) ==
  /\ Idle
  /\ n \in 1..Len(runs[i])
  /\ runs[i][n].phase = "waiting"
  /\ runs[i][n].prev # 0
  /\ runs[i][runs[i][n].prev].promise = "resolved"
  /\ SetHeap(thenFn(Heap, i, n, b, FALSE))
  /\ ret' = NoRet
  /\ UNCHANGED registrarVars

\* the body of run n, having returned a promise, calls track(obj, prop)
BodyTrack(i, n, prop) ==
  /\ Idle
  /\ n \in 1..Len(runs[i])
  /\ runs[i][n].phase = "body"
  /\ LET r == track(Heap, i, prop)
     IN /\ SetHeap(r.h)
        /\ ret' = r.v
  /\ UNCHANGED registrarVars

\* the promise the body of run n returned settles
BodySettle(i, n, out) ==
  /\ Idle
  /\ n \in 1..Len(runs[i])
  /\ runs[i][n].phase = "body"
  /\ SetHeap(IF out = "reject" THEN bodyFailed(Heap, i, n, FALSE)
                               ELSE bodyReturned(Heap, i, n, out))
  /\ ret' = NoRet
  /\ UNCHANGED registrarVars

\* obj[prop] = v
Write(prop, v) ==
  /\ Idle
  /\ v # store[prop]
  /\ SetHeap(notifyWrite(Heap, prop, v))
  /\ ret' = NoRet
  /\ UNCHANGED registrarVars

\* a registered trigger fires: handleWatch marks the watch dirty
FireTrigger(i) ==
  /\ Idle
  /\ Len(regs[i]) > 0
  /\ f' = [f EXCEPT ![i] = SetFlag(@, WatchFlagsIsDirty)]
  /\ sets' = [sets EXCEPT ![i] = IF HasFlag(f[i], WatchFlagsIsDirty) THEN @ ELSE @ + 1]
  /\ ret' = NoRet
  /\ UNCHANGED <<destroy, running, runs, subs, store, tracked, log, destroyed, err>>
  /\ UNCHANGED registrarVars

\* the element is torn down: destroyWatch(watch)
DestroyWatch(i) ==
  /\ Idle
  /\ Exists(i)
  /\ SetHeap([destroyWatch(Heap, i) EXCEPT !.destroyed[i] = TRUE])
  /\ ret' = NoRet
  /\ UNCHANGED registrarVars

----------------------------------------------------------------------------

Init ==
  /\ isServer \in BOOLEAN
  /\ seq = [i \in Sites |-> FALSE]
  /\ cursor = 0
  /\ renders = 0
  /\ watches = <<>>
  /\ f = [i \in DescSites |-> 0]
  /\ destroy = [i \in DescSites |-> 0]
  /\ running = [i \in DescSites |-> 0]
  /\ runs = [i \in DescSites |-> <<>>]
  /\ sets = [i \in DescSites |-> 0]
  /\ destroyed = [i \in DescSites |-> FALSE]
  /\ err = "none"
  /\ subs = {}
  /\ store = [p \in Props |-> 0]
  /\ tracked = [i \in DescSites |-> {}]
  /\ ret = NoRet
  /\ log = [i \in DescSites |-> <<>>]
  /\ regs = [i \in DescSites |-> <<>>]
  /\ waitOn = {}
  /\ initTask = [st |-> "none", p |-> 0]
  /\ mounts = [i \in MountSites |-> "none"]
  /\ mountCalls = [i \in MountSites |-> 0]
  /\ setup = "idle"

\* the component function is evaluated, call site after call site, the
\* registrars that take options being given one of `opts`
RegisterWith(opts) ==
  \/ RenderStart
  \/ \E run \in opts : UseWatchQrl(run)
  \/ \E run \in opts : UseClientEffectQrl(run)
  \/ UseServerMountQrl
  \/ UseClientMountQrl
  \/ UseMountQrl
  \/ UseCleanupQrl
  \/ RenderEnd

\* a component that gives any of the run options
Register == RegisterWith(RunOpts)

\* a component that gives no options
RegisterPlain == RegisterWith({Undefined})

\* the runner, the bodies, the writes and the teardown
Runner ==
  \/ \E b \in Bodies : InitialRun(b)
  \/ \E i \in WatchSites, b \in Bodies : RunWatch(i, b)
  \/ \E i \in WatchSites, n \in 1..MaxRuns, b \in Bodies : RunContinue(i, n, b)
  \/ \E i \in WatchSites, n \in 1..MaxRuns, prop \in TrackArgs : BodyTrack(i, n, prop)
  \/ \E i \in WatchSites, n \in 1..MaxRuns, out \in {"none", "cleanup", "reject"} : BodySettle(i, n, out)
  \/ \E prop \in Props, v \in Vals : Write(prop, v)
  \/ \E i \in WatchSites : DestroyWatch(i)

\* the promises of the mount functions settle, and setup with them
Settle ==
  \/ \E i \in MountSites, ok \in BOOLEAN : MountSettle(i, ok)
  \/ SetupDone
  \/ SetupFail

\* the bodies that track nothing before they return
PlainBodies == {b \in Bodies : b.track = NoTrack}

\* the runs the registrars cause: the microtask of useWatchQrl and the
\* registered triggers, with the runs the scheduler starts after them
Triggered ==
  \/ \E b \in PlainBodies : InitialRun(b)
  \/ \E i \in WatchSites : FireTrigger(i)
  \/ \E i \in WatchSites, b \in PlainBodies : RunWatch(i, b)
  \/ \E i \in WatchSites, n \in 1..MaxRuns, b \in PlainBodies : RunContinue(i, n, b)
  \/ \E i \in WatchSites, n \in 1..MaxRuns, out \in {"none", "cleanup", "reject"} : BodySettle(i, n, out)

\* the behaviours of a component that gives no options, in which the
\* promises of the mount functions stay pending and no trigger fires
Next == RegisterPlain \/ Runner

Spec == Init /\ [][Next]_vars

\* the runner with bodies that end well, the writes and the teardown of
\* every descriptor
GoodRunner ==
  \/ \E b \in GoodBodies : InitialRun(b)
  \/ \E i \in WatchSites, b \in GoodBodies : RunWatch(i, b)
  \/ \E i \in WatchSites, n \in 1..MaxRuns, b \in GoodBodies : RunContinue(i, n, b)
  \/ \E i \in WatchSites, n \in 1..MaxRuns, out \in {"none", "cleanup", "badcleanup"} : BodySettle(i, n, out)
  \/ \E prop \in Props, v \in Vals : Write(prop, v)
  \/ \E i \in DescSites : DestroyWatch(i)

\* the behaviours in which every body ends well and any descriptor may be
\* torn down
NextEnd == RegisterPlain \/ GoodRunner

SpecEnd == Init /\ [][NextEnd]_vars

\* the bodies that track the whole object and end well, the function they
\* return being one that does not throw, and the body that does nothing
FairBodies ==
  {b \in GoodBodies : b.track = Undefined /\ b.out # "badcleanup"} \cup {NoBody}

\* the runner with these bodies, the writes to one property and the teardown
\* of the watch
FairRunner ==
  \/ \E b \in FairBodies : InitialRun(b)
  \/ \E i \in WatchSites, b \in FairBodies : RunWatch(i, b)
  \/ \E i \in WatchSites, n \in 1..MaxRuns, b \in FairBodies : RunContinue(i, n, b)
  \/ \E i \in WatchSites, n \in 1..MaxRuns, out \in {"none", "cleanup"} : BodySettle(i, n, out)
  \/ \E v \in Vals : Write("a", v)
  \/ DestroyWatch(SiteWatch)

\* the behaviours in which every body ends well, a resolved promise calls
\* back what waits on it, and a promise a body returned settles
NextFair == RegisterPlain \/ FairRunner

SpecFair ==
  /\ Init
  /\ [][NextFair]_vars
  /\ \A i \in WatchSites, n \in 1..MaxRuns :
       /\ WF_vars(\E b \in FairBodies : RunContinue(i, n, b))
       /\ WF_vars(\E out \in {"none", "cleanup"} : BodySettle(i, n, out))

\* the behaviours in which the store is left alone and the element stays
NextReg == Register \/ Settle \/ Triggered

SpecReg == Init /\ [][NextReg]_vars

----------------------------------------------------------------------------
(* Properties of the runner *)

Dirty(i) == HasFlag(f[i], WatchFlagsIsDirty)

\* the body of run n of descriptor i has been invoked
Started(i, n) == runs[i][n].phase \in {"body", "ended"}

\* the positions of an entry in the log of descriptor i
Pos(i, e) == {k \in 1..Len(log[i]) : log[i][k] = e}

\* the keys descriptor i is subscribed to
SubsOf(i) == {s[2] : s \in {t \in subs : t[1] = i}}

\* the latest run of descriptor i whose body was invoked has resolved
LatestSettled(i) ==
  \E n \in 1..Len(runs[i]) :
    /\ Started(i, n)
    /\ runs[i][n].promise = "resolved"
    /\ \A m \in (n + 1)..Len(runs[i]) : ~Started(i, m)

\* C1: at most one body of a descriptor is executing at any time, and the
\* body of a run has been invoked only if every earlier run of the same
\* descriptor has ended and its promise has settled.
C1_SingleFlight ==
  \A i \in WatchSites :
    /\ Cardinality({n \in 1..Len(runs[i]) : runs[i][n].phase = "body"}) <= 1
    /\ \A n \in 1..Len(runs[i]) :
         Started(i, n) =>
           \A m \in 1..(n - 1) :
             runs[i][m].phase = "ended" /\ runs[i][m].promise # "pending"

\* runWatch was called again while the body of the earlier run is executing
C1_Witness ==
  \E i \in WatchSites :
    /\ Len(runs[i]) >= 2
    /\ runs[i][1].phase = "body"
    /\ runs[i][2].phase = "waiting"

\* C2: a runWatch call on a descriptor whose IS_DIRTY is unset returns a
\* promise already resolved with the descriptor, invokes neither the body nor
\* the cleanup, and leaves the flags, the cleanup function, the in-flight
\* handle and the subscriptions as they were.
C2_NoOpWhenClean ==
  [][\A i \in WatchSites :
       (ret'.op = "runWatch" /\ ret'.i = i /\ ~Dirty(i)) =>
         /\ ret'.p = 0
         /\ UNCHANGED <<f, destroy, running, runs, subs, tracked, log, store>>]_vars

\* runWatch returned on a clean descriptor that has a cleanup attached and subscriptions
C2_Witness ==
  /\ ret = RetPromise(SiteWatch, 0)
  /\ destroy[SiteWatch] # 0
  /\ SubsOf(SiteWatch) # {}
  /\ running[SiteWatch] # 0

\* C3: when the body of run n is invoked and run n-1 returned a cleanup
\* function, that function was invoked earlier, and no body of the descriptor
\* was invoked between the two.
C3_CleanupBeforeBody ==
  \A i \in WatchSites :
    \A k \in 1..Len(log[i]) :
      LET n == log[i][k].n
      IN (log[i][k].e = "body" /\ n > 1 /\ runs[i][n - 1].cleanup) =>
           \E j \in 1..(k - 1) :
             /\ log[i][j] = Ev("cleanup", n - 1)
             /\ \A l \in (j + 1)..(k - 1) : log[i][l].e # "body"

\* the cleanup of run 1 ran, then the body of run 2, after a tracked write
C3_Witness ==
  \E i \in WatchSites :
    /\ Len(log[i]) >= 3
    /\ log[i][1] = Ev("body", 1)
    /\ log[i][2] = Ev("cleanup", 1)
    /\ log[i][3] = Ev("body", 2)

\* C4: the cleanup function a run returned is invoked at most once, only
\* functions that were returned are invoked, one not yet invoked is still
\* attached to the descriptor, and it has been invoked once the body of the
\* next run has been invoked.
C4_CleanupExactlyOnce ==
  \A i \in WatchSites :
    \A m \in 1..Len(runs[i]) :
      LET c == Cardinality(Pos(i, Ev("cleanup", m)))
      IN /\ c <= 1
         /\ c = 1 => runs[i][m].cleanup
         /\ (runs[i][m].cleanup /\ c = 0) => destroy[i] = m
         /\ (runs[i][m].cleanup /\ m < Len(runs[i]) /\ Started(i, m + 1)) => c = 1

\* two runs returned a cleanup function and a third run has invoked its body
C4_Witness ==
  \E i \in WatchSites :
    /\ Len(runs[i]) >= 3
    /\ runs[i][1].cleanup
    /\ runs[i][2].cleanup
    /\ Started(i, 3)

\* C5: a write to a subscribed property sets IS_DIRTY and leaves the runs and
\* the in-flight handle alone; IS_DIRTY, once set, is cleared by nothing but a
\* runWatch call, which then returns the promise of a new run; that run
\* waits for the in-flight run only (with none in flight its body is invoked
\* before runWatch returns); and the body is invoked again by the next
\* runWatch call: a run that was in flight when the flag was set again (the
\* flag is set, or a later runWatch call has taken it) ends with its promise
\* resolved, which is what the callback of the next run waits for.
C5_MutationNotLost ==
  [][\A i \in WatchSites :
       /\ (\E prop \in Props : store'[prop] # store[prop] /\ i \in Subscribers(Heap, prop)) =>
            /\ HasFlag(f'[i], WatchFlagsIsDirty)
            /\ runs'[i] = runs[i]
            /\ running'[i] = running[i]
       /\ (Dirty(i) /\ ~HasFlag(f'[i], WatchFlagsIsDirty)) =>
            ret' = RetPromise(i, Len(runs[i]) + 1)
       /\ (Dirty(i) /\ ret'.op = "runWatch" /\ ret'.i = i) =>
            /\ Len(runs'[i]) = Len(runs[i]) + 1
            /\ runs'[i][Len(runs'[i])].prev = running[i]
            /\ running[i] = 0 => runs'[i][Len(runs'[i])].phase \in {"body", "ended"}
            /\ running'[i] = Len(runs'[i])
       /\ \A m \in 1..Len(runs[i]) :
            (/\ runs[i][m].phase \in {"waiting", "body"}
             /\ Dirty(i) \/ Len(runs[i]) > m
             /\ runs'[i][m].phase = "ended") =>
              runs'[i][m].promise = "resolved"]_vars

\* C6: when the latest run of a descriptor has resolved, the descriptor is
\* subscribed to exactly what that run passed to the tracker, and a write
\* notifies it only through one of these.
C6_SubsReplaced ==
  \A i \in WatchSites :
    LatestSettled(i) =>
      /\ SubsOf(i) = tracked[i]
      /\ \A prop \in Props :
           i \in Subscribers(Heap, prop) <=> (prop \in tracked[i] \/ Undefined \in tracked[i])

\* the second run resolved having tracked nothing: what the first run
\* tracked (a write to it made the descriptor dirty) is dropped
C6_Witness ==
  \E i \in WatchSites :
    /\ Len(runs[i]) = 2
    /\ runs[i][2].promise = "resolved"
    /\ tracked[i] = {}
    /\ SubsOf(i) = {}

\* C7: track(obj, prop) returns obj[prop] and adds a subscription to that
\* property alone; track(obj) returns obj and adds a subscription to the
\* whole object; a write marks dirty the descriptors subscribed to the
\* written property or to the whole object, and no other.
C7_Tracker ==
  [][/\ ret'.op = "track" =>
          /\ ret'.arg \in Props
          /\ ret'.v = store[ret'.arg]
          /\ subs' = subs \cup {<<ret'.i, ret'.arg>>}
     /\ ret'.op = "trackObj" =>
          /\ ret'.arg = Undefined
          /\ subs' = subs \cup {<<ret'.i, Undefined>>}
     /\ \A i \in WatchSites, prop \in Props :
          store'[prop] # store[prop] =>
            IF <<i, prop>> \in subs \/ <<i, Undefined>> \in subs
              THEN HasFlag(f'[i], WatchFlagsIsDirty)
              ELSE f'[i] = f[i]]_vars

----------------------------------------------------------------------------
(* Properties of the registrars, under SpecReg *)

Count(i) == Cardinality({k \in 1..Len(watches) : watches[k] = i})

\* C8: a call site of useWatchQrl or useClientEffectQrl that was evaluated
\* has exactly one descriptor in the element's list, whatever the number of
\* evaluations; its trigger was registered at most once, and the initial run
\* is not scheduled again by a later evaluation.
C8_CreateOnce ==
  /\ \A i \in WatchSites :
       /\ Count(i) = IF seq[i] THEN 1 ELSE 0
       /\ Len(regs[i]) <= 1
  /\ Len(regs[SiteEffect]) = IF seq[SiteEffect] THEN 1 ELSE 0
  /\ renders > 1 => initTask.st = "done"

\* both call sites were evaluated a second time
C8_Witness ==
  /\ renders = 2
  /\ cursor > SiteEffect

\* C9: the function of useServerMountQrl is invoked once if the platform is
\* the server and never otherwise, that of useClientMountQrl once if it is
\* not the server and never otherwise, that of useMountQrl once, in each
\* case by the first evaluation of the call site; no descriptor of a mount
\* call site is in the element's list.
C9_MountGate ==
  /\ mountCalls[SiteServerMount] = IF seq[SiteServerMount] /\ isServer THEN 1 ELSE 0
  /\ mountCalls[SiteClientMount] = IF seq[SiteClientMount] /\ ~isServer THEN 1 ELSE 0
  /\ mountCalls[SiteMount] = IF seq[SiteMount] THEN 1 ELSE 0
  /\ \A k \in 1..Len(watches) : watches[k] \notin MountSites

\* on the client the three mount call sites were evaluated twice
C9_Witness ==
  /\ ~isServer
  /\ renders = 2
  /\ cursor = NSites + 1
  /\ mountCalls[SiteClientMount] = 1

\* C10 as stated: setup awaits nothing but the invocations of the mount registrars.
C10_OnlyMountsAwaited == \A e \in waitOn : e \in MountSites

\* C10, amended: useClientEffectQrl hands nothing to useWaitOn; useWatchQrl
\* hands it the promise of its initial run on its first evaluation, so the
\* first setup completes only after the microtask ran and the promise
\* runWatch returned to it resolved.
C10_WatchAwaited ==
  /\ SiteEffect \notin waitOn
  /\ (renders = 1 /\ seq[SiteWatch]) => SiteWatch \in waitOn
  /\ (renders = 1 /\ setup = "done") =>
       /\ initTask.st = "done"
       /\ initTask.p # 0 => runs[SiteWatch][initTask.p].promise = "resolved"

\* the first setup completed after the initial run of the watch resolved
C10_Witness ==
  /\ renders = 1
  /\ setup = "done"
  /\ initTask.p # 0
  /\ Len(log[SiteEffect]) = 0

----------------------------------------------------------------------------
(* Failure of the body *)

\* the body of run n of descriptor i threw, or the promise it returned rejected
Failed(i, n) == runs[i][n].phase = "ended" /\ runs[i][n].promise # "resolved"

\* C11: a run whose body failed does not block the later runs of the
\* descriptor: no run is left waiting on the promise of a failed run.
C11_RejectedRunDoesNotBlock ==
  \A i \in WatchSites :
    \A n \in 1..Len(runs[i]) :
      (runs[i][n].phase = "waiting" /\ runs[i][n].prev # 0) =>
        ~Failed(i, runs[i][n].prev)

\* C12: when the body of a run throws or the promise it returned rejects,
\* the promise runWatch returned for that run is rejected: it is neither
\* resolved nor left pending.
C12_FailureRejects ==
  \A i \in WatchSites :
    \A n \in 1..Len(runs[i]) :
      Failed(i, n) => runs[i][n].promise = "rejected"

----------------------------------------------------------------------------
(* The order of the runs *)

\* C20: the in-flight handle of a descriptor is the promise of the run
\* started last, the promise a runWatch call that found IS_DIRTY set returned
\* is the handle after the call, every run waits on the promise of the run
\* started just before it, and the bodies are invoked in the order of the
\* calls.
C20_HandleIsLatestRun ==
  /\ \A i \in WatchSites :
       /\ running[i] = Len(runs[i])
       /\ \A n \in 1..Len(runs[i]) : runs[i][n].prev = n - 1
       /\ \A j, k \in 1..Len(log[i]) :
            (j < k /\ log[i][j].e = "body" /\ log[i][k].e = "body") =>
              log[i][j].n < log[i][k].n
  /\ (ret.op = "runWatch" /\ ret.p # 0) => running[ret.i] = ret.p

\* a third run was started while the second waited, and the bodies of the
\* first two runs have been invoked
C20_Witness ==
  \E i \in WatchSites :
    /\ Len(runs[i]) >= 3
    /\ ret = RetPromise(i, 3)
    /\ runs[i][3].phase = "waiting"
    /\ Pos(i, Ev("body", 2)) # {}

----------------------------------------------------------------------------
(* Teardown *)

\* C14: destroyWatch on a descriptor without IS_CLEANUP, after a run whose
\* body returned a function has settled, invokes that function through
\* cleanupWatch, once in all, detaches it, and invokes no body: the runs and
\* everything else of the descriptor stay as they were.
C14_DestroyInvokesCleanupOnce ==
  [][\A i \in WatchSites :
       (/\ DestroyWatch(i)
        /\ ~HasFlag(f[i], WatchFlagsIsCleanup)
        /\ destroy[i] # 0
        /\ runs[i][destroy[i]].promise = "resolved") =>
         /\ log'[i] = Append(log[i], Ev("cleanup", destroy[i]))
         /\ Cardinality({k \in 1..Len(log'[i]) : log'[i][k] = Ev("cleanup", destroy[i])}) = 1
         /\ destroy'[i] = 0
         /\ UNCHANGED <<f, running, runs, subs, tracked, store>>]_vars

\* destroyWatch invoked the function the settled run 1 had returned
C14_Witness ==
  \E i \in WatchSites :
    /\ destroyed[i]
    /\ Len(runs[i]) = 1
    /\ runs[i][1].cleanup
    /\ runs[i][1].promise = "resolved"
    /\ destroy[i] = 0
    /\ log[i] = <<Ev("body", 1), Ev("cleanup", 1)>>

\* every promise runWatch created for descriptor i has resolved
AllSettled(i) == \A n \in 1..Len(runs[i]) : runs[i][n].promise = "resolved"

\* C15: once destroyWatch was called on a descriptor and all its runs have
\* settled, every function a body returned has been invoked and none is
\* attached to the descriptor.
C15_FinalCleanupInvoked ==
  \A i \in WatchSites :
    (destroyed[i] /\ AllSettled(i)) =>
      /\ destroy[i] = 0
      /\ \A n \in 1..Len(runs[i]) :
           runs[i][n].cleanup => Pos(i, Ev("cleanup", n)) # {}

----------------------------------------------------------------------------
(* The gate *)

\* the invocations of the body of descriptor i
BodyEvents(i) == {k \in 1..Len(log[i]) : log[i][k].e = "body"}

\* C16: only a runWatch call that found IS_DIRTY set, and cleared it, leads
\* to an invocation of the body: every promise runWatch created used up one
\* setting of the flag, each of them has at most one invocation of the body,
\* so the body was invoked at most as often as IS_DIRTY went from unset to
\* set; a descriptor whose flag was never set has no invocation.
C16_DirtyGatesBody ==
  \A i \in WatchSites :
    /\ Cardinality(BodyEvents(i)) <= sets[i]
    /\ Len(runs[i]) + (IF Dirty(i) THEN 1 ELSE 0) = sets[i]
    /\ \A n \in 1..Len(runs[i]) : Cardinality(Pos(i, Ev("body", n))) <= 1
    /\ sets[i] = 0 => log[i] = <<>>

\* both properties were written, the body of the watch was invoked twice,
\* and runWatch returned on the client effect, which never was dirty
C16_Witness ==
  /\ ret = RetPromise(SiteEffect, 0)
  /\ f[SiteEffect] = WatchFlagsIsEffect
  /\ log[SiteEffect] = <<>>
  /\ sets[SiteWatch] = 2
  /\ Cardinality(BodyEvents(SiteWatch)) = 2
  /\ \A p \in Props : store[p] = 1

----------------------------------------------------------------------------
(* The run trigger *)

\* C19: useRunWatch registers the descriptor for 'load' with the resume
\* mechanism, for 'visible' with the visibility mechanism, and registers
\* nothing for an absent option; the first evaluation of useClientEffectQrl
\* registers the given trigger, 'visible' if none is given, on the server and
\* on the client; the first evaluation of useWatchQrl registers the given
\* trigger on the server and nothing on the client.
C19_TriggerRegistered ==
  [][/\ \A run \in RunOpts :
          (UseWatchQrl(run) /\ ~seq[SiteWatch]) =>
            regs'[SiteWatch] = IF isServer /\ run # Undefined THEN <<run>> ELSE <<>>
     /\ \A run \in RunOpts :
          (UseClientEffectQrl(run) /\ ~seq[SiteEffect]) =>
            regs'[SiteEffect] = <<IF run = Undefined THEN "visible" ELSE run>>
     /\ \A i \in WatchSites :
          /\ useRunWatch(regs, i, "load")[i] = Append(regs[i], "load")
          /\ useRunWatch(regs, i, "visible")[i] = Append(regs[i], "visible")
          /\ useRunWatch(regs, i, Undefined) = regs
     /\ ~isServer => regs'[SiteWatch] = <<>>
     /\ seq'[SiteEffect] => Len(regs'[SiteEffect]) = 1]_vars

\* on the server the watch was registered for 'load' and the effect, given
\* no option, for 'visible'
C19_Witness ==
  /\ isServer
  /\ regs[SiteWatch] = <<"load">>
  /\ regs[SiteEffect] = <<"visible">>
  /\ renders = 2

----------------------------------------------------------------------------
(* Completion *)

\* C18: when every body ends well and the callbacks of resolved promises are
\* run, every runWatch call that found IS_DIRTY set leads to an invocation of
\* its body and to its promise resolved, whatever writes, runWatch calls and
\* destroyWatch calls come between.
C18_StartedRunCompletes ==
  \A i \in WatchSites, n \in 1..MaxRuns :
    (Len(runs[i]) >= n) ~>
      (/\ Len(runs[i]) >= n
       /\ Pos(i, Ev("body", n)) # {}
       /\ runs[i][n].promise = "resolved")

\* three runs were started one behind the other, destroyWatch was called
\* while they were in flight, and all of them resolved
C18_Witness ==
  \E i \in WatchSites :
    /\ Len(runs[i]) = 3
    /\ destroyed[i]
    /\ AllSettled(i)
    /\ \A n \in 1..3 : Pos(i, Ev("body", n)) # {}

----------------------------------------------------------------------------
(* A cleanup function that throws *)

\* C13: what an attached function throws is caught and logged, never passed
\* on.  When the function is invoked by the callback of a run, it is
\* detached, the body of that run is invoked after it, and a body that has
\* ended leaves the promise of the run resolved; when it is invoked by
\* destroyWatch, it is detached and destroyWatch changes nothing else.
C13_CleanupThrowSuppressed ==
  [][/\ err' # "thrown"
     /\ \A i \in WatchSites :
          LET m == destroy[i]
              k == Len(log[i]) + 1
          IN (/\ m # 0
              /\ runs[i][m].throws
              /\ Len(log'[i]) >= k
              /\ log'[i][k] = Ev("cleanup", m)) =>
               /\ err' = "logged"
               /\ destroy'[i] # m
               /\ IF DestroyWatch(i)
                    THEN /\ Len(log'[i]) = k
                         /\ destroy'[i] = 0
                         /\ UNCHANGED <<f, running, runs, subs, store, tracked>>
                    ELSE /\ Len(log'[i]) = k + 1
                         /\ log'[i][k + 1].e = "body"
                         /\ LET n == log'[i][k + 1].n
                            IN /\ runs[i][n].phase = "waiting"
                               /\ runs'[i][n].phase \in {"body", "ended"}
                               /\ runs'[i][n].phase = "ended" =>
                                    runs'[i][n].promise = "resolved"]_vars

\* run 2 invoked the throwing function run 1 had returned, then its body, and
\* resolved; destroyWatch then invoked the throwing function run 2 had returned
C13_Witness ==
  \E i \in WatchSites :
    /\ err = "logged"
    /\ destroyed[i]
    /\ log[i] = <<Ev("body", 1), Ev("cleanup", 1), Ev("body", 2), Ev("cleanup", 2)>>
    /\ runs[i][1].throws
    /\ runs[i][2].throws
    /\ runs[i][2].promise = "resolved"
    /\ destroy[i] = 0

----------------------------------------------------------------------------
(* A descriptor that is a bare teardown callback *)

\* C17: destroyWatch on a descriptor whose IS_CLEANUP is set clears that flag
\* and no other, invokes the registered function once, and leaves the
\* attached function, the handle, the runs, the subscriptions and what was
\* tracked as they were; the registered function is invoked once in all, so a
\* second destroyWatch does not invoke it.
C17_CleanupDescriptorDestroyed ==
  [][\A i \in DescSites :
       /\ (DestroyWatch(i) /\ HasFlag(f[i], WatchFlagsIsCleanup)) =>
            /\ f'[i] = f[i] - WatchFlagsIsCleanup
            /\ log'[i] = Append(log[i], Ev("qrl", 0))
            /\ UNCHANGED <<destroy, running, runs, subs, tracked, store, sets>>
            /\ \A j \in DescSites \ {i} : f'[j] = f[j] /\ log'[j] = log[j]
       /\ (DestroyWatch(i) /\ Pos(i, Ev("qrl", 0)) # {}) => log'[i] = log[i]
       /\ Cardinality({k \in 1..Len(log'[i]) : log'[i][k] = Ev("qrl", 0)}) <= 1]_vars

\* destroyWatch was called on the descriptor of useCleanupQrl after a run of
\* the watch had attached a function, which stayed attached
C17_Witness ==
  /\ destroyed[SiteCleanup]
  /\ f[SiteCleanup] = 0
  /\ log[SiteCleanup] = <<Ev("qrl", 0)>>
  /\ destroy[SiteWatch] # 0
  /\ SubsOf(SiteWatch) # {}

====
